---- MODULE Spec2Model ----
(***************************************************************************)
(* Model of the resume-generator form core: the ResumeForm orchestrator    *)
(* (section cursor, aggregate record, submission errors), its section      *)
(* models, the field validators/sanitizers, the two-tier storage load and  *)
(* the session auto-save, and the App shell that mounts the form and calls *)
(* the generation service.                                                 *)
(*                                                                         *)
(* Text is modelled as a sequence of one-character strings so that trim,   *)
(* tag stripping and the date/GPA grammars are computed character by       *)
(* character, as the regular expressions of the source do.                 *)
(***************************************************************************)
EXTENDS Integers, Sequences, FiniteSets, TLC

\* ------------------------------------------------------------------ bounds
\* most education entries the list may hold in a run
MaxEdu == 2
\* most experience entries the list may hold in a run
MaxExp == 2
\* most entries in a list of a record found in storage at start
MaxStored == 1
\* number of repositories the repository-list collaborator returns
NumRepos == 1
\* largest value Date.now() takes in a run
MaxNow == 2
\* most record mutations in a run of the whole application
MaxEdits == 2
\* most record mutations in a run that edits the experience section only
MaxExperienceEdits == 5
\* most session-store writes that throw in a run
MaxSaveFailures == 1
\* most outstanding generateResume calls the model tracks
MaxInflight == 2
\* files handed to a FileReader by one form
MaxUploads == 1

\* ------------------------------------------------------------ text helpers
EmptyStr == << >>

IsWhitespace(c) == c = " "

\* String.prototype.trim: drop leading and trailing whitespace
RECURSIVE TrimLeft(_)
TrimLeft(s) ==
  IF s = << >> THEN << >>
  ELSE IF IsWhitespace(Head(s)) THEN TrimLeft(Tail(s)) ELSE s

RECURSIVE TrimRight(_)
TrimRight(s) ==
  IF s = << >> THEN << >>
  ELSE IF IsWhitespace(s[Len(s)]) THEN TrimRight(SubSeq(s, 1, Len(s) - 1)) ELSE s

Trim(s) == TrimRight(TrimLeft(s))

\* JavaScript truthiness of a string: non-empty
Truthy(s) == s # << >>

LowerCase(c) ==
  CASE c = "S" -> "s" [] c = "C" -> "c" [] c = "R" -> "r" [] c = "I" -> "i"
    [] c = "P" -> "p" [] c = "T" -> "t" [] OTHER -> c

IsDigit(c) == c \in {"0", "1", "2", "3", "4", "5", "6", "7", "8", "9"}

\* \w of the regular-expression engine, over the model's alphabet
IsWordChar(c) ==
  \/ IsDigit(c)
  \/ c \in {"a", "b", "c", "e", "i", "p", "r", "s", "t", "x", "y", "n",
            "S", "C", "R", "I", "P", "T", "_"}

\* s has the literal lit (case-insensitively) at position i
MatchesAt(s, i, lit) ==
  /\ i + Len(lit) - 1 <= Len(s)
  /\ \A k \in 1..Len(lit) : LowerCase(s[i + k - 1]) = lit[k]

ScriptOpen == <<"<", "s", "c", "r", "i", "p", "t">>
ScriptClose == <<"<", "/", "s", "c", "r", "i", "p", "t", ">">>

\* <script\b at position i
ScriptOpensAt(s, i) ==
  /\ MatchesAt(s, i, ScriptOpen)
  /\ (i + 7 > Len(s) \/ ~IsWordChar(s[i + 7]))

\* positions j >= from where </script> starts
ClosePositions(s, from) == {j \in from..Len(s) : MatchesAt(s, j, ScriptClose)}

Min(S) == CHOOSE m \in S : \A n \in S : m <= n

\* .replace(/<script\b[^<]*(?:(?!<\/script>)<[^<]*)*<\/script>/gi, '')
\* a block runs from <script\b to the first </script> after it
RECURSIVE StripScriptsFrom(_, _)
StripScriptsFrom(s, i) ==
  IF i > Len(s) THEN << >>
  ELSE IF ScriptOpensAt(s, i) /\ ClosePositions(s, i + 7) # {}
       THEN StripScriptsFrom(s, Min(ClosePositions(s, i + 7)) + 9)
       ELSE <<s[i]>> \o StripScriptsFrom(s, i + 1)

StripScripts(s) == StripScriptsFrom(s, 1)

\* positions j > i + 1 holding the first '>' that follows at least one char
TagEnds(s, i) == {j \in (i + 2)..Len(s) : s[j] = ">"}

\* .replace(/<[^>]+>/g, ''): '<', one or more non-'>' characters, '>'
RECURSIVE StripTagsFrom(_, _)
StripTagsFrom(s, i) ==
  IF i > Len(s) THEN << >>
  ELSE IF /\ s[i] = "<"
          /\ i + 1 <= Len(s)
          /\ s[i + 1] # ">"
          /\ TagEnds(s, i) # {}
       THEN StripTagsFrom(s, Min(TagEnds(s, i)) + 1)
       ELSE <<s[i]>> \o StripTagsFrom(s, i + 1)

StripTags(s) == StripTagsFrom(s, 1)

\* variant: tags are trimmed around, not removed
sanitizeString_TrimFirst(input) ==
  IF ~Truthy(input) THEN EmptyStr
  ELSE StripTags(StripScripts(Trim(input)))

sanitizeString(input) ==
  IF ~Truthy(input) THEN EmptyStr
  ELSE Trim(StripTags(StripScripts(input)))

sanitizeDescription(input) ==
  IF ~Truthy(input) THEN EmptyStr
  ELSE Trim(StripScripts(input))

\* ---------------------------------------------------------- date validator
PresentLiteral == <<"P", "r", "e", "s", "e", "n", "t">>

\* variant: any two digits pass as a month
DateRegexTest_AnyMonth(d) ==
  /\ Len(d) = 7
  /\ \A k \in 1..4 : d[k] \in {"0", "1", "2", "3", "4", "5", "6", "7", "8", "9"}
  /\ d[5] = "-"
  /\ \A k \in 6..7 : d[k] \in {"0", "1", "2", "3", "4", "5", "6", "7", "8", "9"}

\* /^\d{4}-(0[1-9]|1[0-2])$/
DateRegexTest(d) ==
  /\ Len(d) = 7
  /\ \A k \in 1..4 : IsDigit(d[k])
  /\ d[5] = "-"
  /\ \/ (d[6] = "0" /\ d[7] \in {"1", "2", "3", "4", "5", "6", "7", "8", "9"})
     \/ (d[6] = "1" /\ d[7] \in {"0", "1", "2"})

validateDate(date) ==
  IF date = PresentLiteral THEN TRUE ELSE DateRegexTest(date)


\* ----------------------------------------------------------- GPA validator
DigitVal(c) ==
  CASE c = "0" -> 0 [] c = "1" -> 1 [] c = "2" -> 2 [] c = "3" -> 3 [] c = "4" -> 4
    [] c = "5" -> 5 [] c = "6" -> 6 [] c = "7" -> 7 [] c = "8" -> 8 [] c = "9" -> 9

\* \d+\.?\d* matches the whole of t
IsNumberText(t) ==
  \E k \in 1..Len(t) :
    /\ \A i \in 1..k : IsDigit(t[i])
    /\ \/ k = Len(t)
       \/ (t[k + 1] = "." /\ \A i \in (k + 2)..Len(t) : IsDigit(t[i]))

\* positions p of a '/' that splits value as <number>\s*/\s*<number>
GpaSplits(value) ==
  {p \in 1..Len(value) :
     /\ value[p] = "/"
     /\ IsNumberText(TrimRight(SubSeq(value, 1, p - 1)))
     /\ IsNumberText(TrimLeft(SubSeq(value, p + 1, Len(value))))}

\* value.match(/^(\d+\.?\d*)\s*\/\s*(\d+\.?\d*)$/)
GpaMatches(value) == GpaSplits(value) # {}

DigitsOf(t) == SelectSeq(t, IsDigit)
PointAt(t) ==
  IF \E k \in 1..Len(t) : t[k] = "." THEN CHOOSE k \in 1..Len(t) : t[k] = "."
  ELSE Len(t) + 1
FractionLen(t) == IF PointAt(t) > Len(t) THEN 0 ELSE Len(t) - PointAt(t)

\* the digits of a number text as a decimal numeral without leading zeros
DecimalDigits(t) ==
  LET d == DigitsOf(t)
      first == IF \E k \in 1..Len(d) : d[k] # "0"
               THEN CHOOSE k \in 1..Len(d) : d[k] # "0" /\ \A j \in 1..(k - 1) : d[j] = "0"
               ELSE Len(d) + 1
  IN << >> \o [i \in 1..(Len(d) - first + 1) |-> DigitVal(d[first + i - 1])]

\* order, doubling and halving of decimal numerals (<< >> \o f makes the
\* function f a tuple)
DigitsLess(a, b) ==
  \/ Len(a) < Len(b)
  \/ /\ Len(a) = Len(b)
     /\ \E k \in 1..Len(a) : a[k] < b[k] /\ \A j \in 1..(k - 1) : a[j] = b[j]

Twice(ds) ==
  LET low == [i \in 1..Len(ds) |->
                (2 * ds[i] + (IF i < Len(ds) /\ ds[i + 1] >= 5 THEN 1 ELSE 0)) % 10]
  IN (IF ds # << >> /\ ds[1] >= 5 THEN <<1>> ELSE << >>) \o low

Half(ds) ==
  LET q == [i \in 1..Len(ds) |-> (ds[i] + (IF i > 1 THEN 10 * (ds[i - 1] % 2) ELSE 0)) \div 2]
  IN IF q # << >> /\ q[1] = 0 THEN Tail(q) ELSE << >> \o q

\* 2^53: below it every whole number is a double
TwoTo53 == <<9, 0, 0, 7, 1, 9, 9, 2, 5, 4, 7, 4, 0, 9, 9, 2>>

\* the whole number q, with a guard bit and a sticky bit already shifted
\* out of it, as <<m, k>>: m the 53-bit significand (ties to even), k the
\* number of further bits shifted out
RECURSIVE RoundToDouble(_, _, _, _)
RoundToDouble(q, guard, sticky, k) ==
  IF ~DigitsLess(q, TwoTo53)
  THEN RoundToDouble(Half(q), q[Len(q)] % 2 = 1, sticky \/ guard, k + 1)
  ELSE IF guard /\ (sticky \/ q[Len(q)] % 2 = 1)
       THEN LET nines == Len(q) - (CHOOSE j \in 1..Len(q) :
                                     q[j] # 9 /\ \A i \in (j + 1)..Len(q) : q[i] = 9)
            IN <<(<< >> \o [i \in 1..Len(q) |->
                              IF i < Len(q) - nines THEN q[i]
                              ELSE IF i = Len(q) - nines THEN q[i] + 1 ELSE 0]), k>>
       ELSE <<q, k>>

\* a non-zero numeral with frac decimals, doubled until its whole part
\* reaches 2^53, as <<numeral, number of doublings>>
RECURSIVE Lifted(_, _, _)
Lifted(ds, frac, s) ==
  IF ~DigitsLess(SubSeq(ds, 1, Len(ds) - frac), TwoTo53) THEN <<ds, s>>
  ELSE Lifted(Twice(ds), frac, s + 1)

\* parseFloat(t) for a non-zero number text, as <<m, e>> with value m * 2^e
\* and 2^52 <= m < 2^53
ParsedDouble(t) ==
  LET frac == FractionLen(t)
      up == Lifted(DecimalDigits(t), frac, 0)
      ds == up[1]
      r == RoundToDouble(SubSeq(ds, 1, Len(ds) - frac), FALSE,
                         \E i \in 1..Len(ds) : i > Len(ds) - frac /\ ds[i] # 0, 0)
  IN IF r[1] = TwoTo53 THEN <<Half(r[1]), r[2] + 1 - up[2]>>
     ELSE <<r[1], r[2] - up[2]>>

\* the numeral of t with decimals digits after the point
Padded(t, decimals) ==
  DecimalDigits(t \o [i \in 1..(decimals - FractionLen(t)) |-> "0"])

\* parseFloat(a) > parseFloat(b) for two number texts; numerals of up to 15
\* digits are told apart by their doubles (DBL_DIG), so those compare as
\* the decimals do
FloatGreater(a, b) ==
  IF DecimalDigits(a) = << >> THEN FALSE
  ELSE IF DecimalDigits(b) = << >> THEN TRUE
  ELSE IF Len(DecimalDigits(a)) <= 15 /\ Len(DecimalDigits(b)) <= 15
  THEN LET decimals == IF FractionLen(a) > FractionLen(b) THEN FractionLen(a)
                       ELSE FractionLen(b)
       IN DigitsLess(Padded(b, decimals), Padded(a, decimals))
  ELSE LET x == ParsedDouble(a)
           y == ParsedDouble(b)
       IN \/ x[2] > y[2]
          \/ x[2] = y[2] /\ DigitsLess(y[1], x[1])

GpaEarned(value) == TrimRight(SubSeq(value, 1, Min(GpaSplits(value)) - 1))
GpaTotal(value) == TrimLeft(SubSeq(value, Min(GpaSplits(value)) + 1, Len(value)))

\* ------------------------------------------------------------- the record
\* repoId / repoData: null
NullRepo == 0
\* repoData: undefined (repos.find found nothing)
UndefinedRepo == -1

RepoIds == 1..NumRepos

\* the processed repository list the repository-list collaborator returns
RECURSIVE SeqUpTo(_)
SeqUpTo(n) == IF n = 0 THEN << >> ELSE Append(SeqUpTo(n - 1), n)
FetchedRepos == SeqUpTo(NumRepos)

SECTIONS == <<"personal", "education", "experience">>

EXPERIENCE_TYPES == {"work"}

RecordKeys == {"personalInfo", "education", "experiences", "selectedRepoIds"}

AText == <<"a">>
ADate == <<"2", "0", "2", "0", "-", "0", "1">>

NewEducation(id) ==
  [id |-> id, institution |-> EmptyStr, degree |-> EmptyStr, field |-> EmptyStr,
   startDate |-> EmptyStr, endDate |-> EmptyStr, gpa |-> EmptyStr,
   achievements |-> << >>]

NewExperience(id, type) ==
  [id |-> id, type |-> type, title |-> EmptyStr, organization |-> EmptyStr,
   startDate |-> EmptyStr, endDate |-> EmptyStr, description |-> EmptyStr,
   repoId |-> NullRepo, repoData |-> NullRepo]

\* the built-in template: a complete sample record
mockResumeData ==
  [personalInfo |-> [fullName |-> AText, email |-> AText, profileImage |-> EmptyStr],
   education |-> <<[NewEducation(0) EXCEPT !.institution = AText, !.degree = AText,
                      !.field = AText, !.startDate = ADate, !.endDate = PresentLiteral]>>,
   experiences |-> <<[NewExperience(0, "work") EXCEPT !.title = AText,
                      !.organization = AText, !.startDate = ADate,
                      !.endDate = PresentLiteral]>>,
   selectedRepoIds |-> << >>]

\* a record the user has emptied
BlankRecord ==
  [personalInfo |-> [fullName |-> EmptyStr, email |-> EmptyStr, profileImage |-> EmptyStr],
   education |-> << >>, experiences |-> << >>, selectedRepoIds |-> << >>]

\* a record with a name and an email and nothing else
NoContentRecord ==
  [BlankRecord EXCEPT !.personalInfo.fullName = AText, !.personalInfo.email = AText]

\* values JSON.parse can return that are not records: null, and an object
\* that has none of the record's slices
JsonNull == [null |-> TRUE]
JsonOtherObject == [version |-> 1]

HasRecordShape(v) == RecordKeys \subseteq DOMAIN v

\* --------------------------------------------------------------- storage
\* a storage slot: getItem gives null (absent), '' (empty), a text that is
\* not JSON (corrupt), or the JSON text of a value
Absent == [kind |-> "absent"]
EmptyText == [kind |-> "empty"]
CorruptText == [kind |-> "corrupt"]

\* what JSON.stringify keeps of an experience entry: a key whose value is
\* undefined is left out of the text
JsonOfExperience(e) ==
  IF e.repoData = UndefinedRepo
  THEN [k \in DOMAIN e \ {"repoData"} |-> e[k]]
  ELSE e

JsonOfRecord(v) ==
  IF HasRecordShape(v)
  THEN [v EXCEPT !.experiences =
          [i \in 1..Len(v.experiences) |-> JsonOfExperience(v.experiences[i])]]
  ELSE v

JSONstringify(v) == [kind |-> "json", value |-> JsonOfRecord(v)]

\* JSON.parse throws on a text that is not JSON
JSONparseThrows(text) == text.kind # "json"
JSONparse(text) == text.value

\* if (sessionData): null and '' are falsy
TruthyText(text) == text.kind \notin {"absent", "empty"}

loadSavedFormData(session, local) ==
  IF TruthyText(session)
  THEN IF JSONparseThrows(session) THEN mockResumeData ELSE JSONparse(session)
  ELSE IF TruthyText(local)
       THEN IF JSONparseThrows(local) THEN mockResumeData ELSE JSONparse(local)
       ELSE mockResumeData

\* ------------------------------------------------- whole-record validation
SeqSome(seq, P(_)) == \E i \in 1..Len(seq) : P(seq[i])
SeqFilter(seq, P(_)) == SelectSeq(seq, P)

IncompleteEducation(edu) ==
  \/ ~Truthy(edu.institution) \/ ~Truthy(edu.degree) \/ ~Truthy(edu.field)
  \/ ~Truthy(edu.startDate) \/ ~Truthy(edu.endDate)

IsManualExperience(exp) == exp.repoId = NullRepo

IncompleteExperience(exp) ==
  \/ ~Truthy(exp.title) \/ ~Truthy(exp.organization)
  \/ ~Truthy(exp.startDate) \/ ~Truthy(exp.endDate)

\* variant: the experience rule looks at linked entries too
validateFormData_AllExperiences(data) ==
  (IF ~Truthy(data.personalInfo.fullName) \/ ~Truthy(Trim(data.personalInfo.fullName))
   THEN {"fullName"} ELSE {})
  \cup
  (IF ~Truthy(data.personalInfo.email) \/ ~Truthy(Trim(data.personalInfo.email))
   THEN {"email"} ELSE {})
  \cup
  (IF Len(data.education) > 0 /\ SeqSome(data.education, IncompleteEducation)
   THEN {"education"} ELSE {})
  \cup
  (IF SeqSome(data.experiences, IncompleteExperience)
   THEN {"experiences"} ELSE {})
  \cup
  (IF Len(data.selectedRepoIds) = 0
      /\ Len(SeqFilter(data.experiences, IsManualExperience)) = 0
   THEN {"content"} ELSE {})

\* variant: the full name is not required
validateFormData_NameOptional(data) ==
  (IF ~Truthy(data.personalInfo.email) \/ ~Truthy(Trim(data.personalInfo.email))
   THEN {"email"} ELSE {})
  \cup
  (IF Len(data.education) > 0 /\ SeqSome(data.education, IncompleteEducation)
   THEN {"education"} ELSE {})
  \cup
  (IF SeqSome(SeqFilter(data.experiences, IsManualExperience), IncompleteExperience)
   THEN {"experiences"} ELSE {})
  \cup
  (IF Len(data.selectedRepoIds) = 0
      /\ Len(SeqFilter(data.experiences, IsManualExperience)) = 0
   THEN {"content"} ELSE {})

\* variant: only a selected repository counts as content
validateFormData_ContentNeedsRepo(data) ==
  (IF ~Truthy(data.personalInfo.fullName) \/ ~Truthy(Trim(data.personalInfo.fullName))
   THEN {"fullName"} ELSE {})
  \cup
  (IF ~Truthy(data.personalInfo.email) \/ ~Truthy(Trim(data.personalInfo.email))
   THEN {"email"} ELSE {})
  \cup
  (IF Len(data.education) > 0 /\ SeqSome(data.education, IncompleteEducation)
   THEN {"education"} ELSE {})
  \cup
  (IF SeqSome(SeqFilter(data.experiences, IsManualExperience), IncompleteExperience)
   THEN {"experiences"} ELSE {})
  \cup
  (IF Len(data.selectedRepoIds) = 0 THEN {"content"} ELSE {})

validateFormData(data) ==
  (IF ~Truthy(data.personalInfo.fullName) \/ ~Truthy(Trim(data.personalInfo.fullName))
   THEN {"fullName"} ELSE {})
  \cup
  (IF ~Truthy(data.personalInfo.email) \/ ~Truthy(Trim(data.personalInfo.email))
   THEN {"email"} ELSE {})
  \cup
  (IF Len(data.education) > 0 /\ SeqSome(data.education, IncompleteEducation)
   THEN {"education"} ELSE {})
  \cup
  (IF SeqSome(SeqFilter(data.experiences, IsManualExperience), IncompleteExperience)
   THEN {"experiences"} ELSE {})
  \cup
  (IF Len(data.selectedRepoIds) = 0
      /\ Len(SeqFilter(data.experiences, IsManualExperience)) = 0
   THEN {"content"} ELSE {})

\* ------------------------------------------------------ submission payload
SeqMap(seq, F(_)) == [i \in 1..Len(seq) |-> F(seq[i])]

SelectedRepo(data, repo) == \E i \in 1..Len(data.selectedRepoIds) : data.selectedRepoIds[i] = repo

PayloadEducation(edu) ==
  [institution |-> edu.institution, degree |-> edu.degree, field |-> edu.field,
   startDate |-> edu.startDate, endDate |-> edu.endDate, gpa |-> edu.gpa,
   achievements |-> edu.achievements]

PayloadExperience(exp) ==
  [type |-> exp.type, title |-> exp.title, organization |-> exp.organization,
   startDate |-> exp.startDate, endDate |-> exp.endDate,
   description |-> exp.description, repoId |-> exp.repoId]

\* variant: a repository linked by an experience entry is forwarded as well
prepareResumeData_WithLinked(data, repoList) ==
  [personalInfo |-> data.personalInfo,
   education |-> SeqMap(data.education, PayloadEducation),
   experiences |-> SeqMap(data.experiences, PayloadExperience),
   githubRepos |-> SelectSeq(repoList, LAMBDA r :
                     \/ SelectedRepo(data, r)
                     \/ \E i \in 1..Len(data.experiences) : data.experiences[i].repoId = r)]

prepareResumeData(data, repoList) ==
  [personalInfo |-> data.personalInfo,
   education |-> SeqMap(data.education, PayloadEducation),
   experiences |-> SeqMap(data.experiences, PayloadExperience),
   githubRepos |-> SelectSeq(repoList, LAMBDA r : SelectedRepo(data, r))]


\* ------------------------------------------------------------------ state
VARIABLES
  \* App
  isModalOpen, loading, generating, generatedResume, hasShownInitialModal, allRepos,
  \* ResumeForm
  formData, currentSection, errors,
  \* EducationForm
  validationErrors,
  \* ExperienceForm
  repos, loadingRepos,
  \* PersonalInfoForm, and the FileReader of every upload of this form
  imagePreview, imageError, reading,
  \* window.sessionStorage / window.localStorage under STORAGE_KEY
  sessionStore, localStore,
  \* generateResume calls that have not settled
  inflight,
  \* Date.now()
  now,
  \* a render threw: React has torn the tree down
  crashed,
  \* history: record mutations so far, outcome of the last session write,
  \* session writes that threw so far, section the last submit was taken
  \* from (until the user navigates or closes the form)
  edits, lastSaveOk, saveFailures, submitSection,
  \* environment of the run: how many times sessionStorage.setItem may
  \* throw, how many record mutations the run may make, the values the
  \* user types into text inputs, and the files the user picks
  failureBudget, editBudget, typed, files

appVars == <<isModalOpen, loading, generating, generatedResume, hasShownInitialModal, allRepos>>
formVars == <<formData, currentSection, errors>>
uploadVars == <<imagePreview, imageError, reading>>
sectionVars == <<validationErrors, repos, loadingRepos, uploadVars>>
storeVars == <<sessionStore, localStore>>
histVars == <<edits, lastSaveOk, saveFailures, submitSection>>
envVars == <<failureBudget, editBudget, typed, files>>
vars == <<appVars, formVars, sectionVars, storeVars, inflight, now, crashed, histVars, envVars>>

\* what formData holds while no ResumeForm instance exists
NoForm == [unmounted |-> TRUE]

\* imagePreview: null
NullPreview == <<"null">>

\* useState(data.profileImage || null)
InitialPreview(data) ==
  IF Truthy(data.personalInfo.profileImage) THEN data.personalInfo.profileImage
  ELSE NullPreview

\* variant: the modal body keeps the form while the call is pending
FormShown_WhileGenerating(open, gen) == open

\* App.jsx renders <ResumeForm> inside the open modal unless generating
FormShown(open, gen) == open /\ ~gen
FormMounted == FormShown(isModalOpen, generating) /\ ~crashed /\ formData # NoForm

\* the form's render reads every slice of the record
RenderThrows(data) == ~HasRecordShape(data)

\* -------------------------------------------------------- ResumeForm steps
\* variant: the effect runs on mount only, so later records are not written
AutoSave_MountOnly(data) ==
  \E ok \in (IF saveFailures < failureBudget THEN BOOLEAN ELSE {TRUE}) :
    /\ sessionStore' = IF ok /\ formData = NoForm THEN JSONstringify(data) ELSE sessionStore
    /\ localStore' = localStore
    /\ lastSaveOk' = ok
    /\ saveFailures' = IF ok THEN saveFailures ELSE saveFailures + 1

\* variant: the effect writes the snapshot to the durable store as well
AutoSave_BothStores(data) ==
  \E ok \in (IF saveFailures < failureBudget THEN BOOLEAN ELSE {TRUE}) :
    /\ sessionStore' = IF ok THEN JSONstringify(data) ELSE sessionStore
    /\ localStore' = IF ok THEN JSONstringify(data) ELSE localStore
    /\ lastSaveOk' = ok
    /\ saveFailures' = IF ok THEN saveFailures ELSE saveFailures + 1

\* the auto-save effect: sessionStorage.setItem may throw (quota); the catch
\* logs and goes on; localStorage is not touched
AutoSave(data) ==
  \E ok \in (IF saveFailures < failureBudget THEN BOOLEAN ELSE {TRUE}) :
    /\ sessionStore' = IF ok THEN JSONstringify(data) ELSE sessionStore
    /\ localStore' = localStore
    /\ lastSaveOk' = ok
    /\ saveFailures' = IF ok THEN saveFailures ELSE saveFailures + 1

\* a ResumeForm instance is created: useState initialisers, first render,
\* first run of the auto-save effect
MountForm ==
  /\ formData' = loadSavedFormData(sessionStore, localStore)
  /\ currentSection' = "personal"
  /\ errors' = {}
  /\ validationErrors' = {}
  /\ repos' = << >>
  /\ loadingRepos' = FALSE
  /\ imageError' = ""
  /\ reading' = << >>
  /\ IF RenderThrows(formData')
     THEN /\ crashed' = TRUE
          /\ imagePreview' = NullPreview
          /\ UNCHANGED <<storeVars, lastSaveOk, saveFailures>>
     ELSE /\ crashed' = crashed
          /\ imagePreview' = InitialPreview(formData')
          /\ AutoSave(formData')

\* the ResumeForm instance is discarded with all its state; what a pending
\* FileReader of it still sets is state of a discarded component
UnmountForm ==
  /\ formData' = NoForm
  /\ currentSection' = "personal"
  /\ errors' = {}
  /\ validationErrors' = {}
  /\ repos' = << >>
  /\ loadingRepos' = FALSE
  /\ imagePreview' = NullPreview
  /\ imageError' = ""
  /\ reading' = << >>
  /\ UNCHANGED <<storeVars, lastSaveOk, saveFailures, crashed>>

\* the form after App state moved from (isModalOpen, generating) to (open, gen)
FormFollows(open, gen) ==
  IF crashed THEN UNCHANGED <<formVars, sectionVars, storeVars, lastSaveOk, saveFailures, crashed>>
  ELSE IF FormShown(open, gen) /\ ~FormShown(isModalOpen, generating) THEN MountForm
  ELSE IF ~FormShown(open, gen) /\ FormShown(isModalOpen, generating) THEN UnmountForm
  ELSE UNCHANGED <<formVars, sectionVars, storeVars, lastSaveOk, saveFailures, crashed>>

getCurrentSectionIndex == CHOOSE i \in 1..Len(SECTIONS) : SECTIONS[i] = currentSection

\* setCurrentSection(s): the section component of the old section is
\* discarded, the one of the new section is created (ExperienceForm starts
\* its repository fetch when created)
SetCurrentSection(s) ==
  /\ currentSection' = s
  /\ IF s = currentSection
     THEN UNCHANGED sectionVars
     ELSE /\ validationErrors' = {}
          /\ repos' = << >>
          /\ loadingRepos' = (s = "experience")
          /\ imagePreview' = (IF s = "personal" THEN InitialPreview(formData)
                               ELSE NullPreview)
          /\ imageError' = ""
          /\ reading' = [i \in 1..Len(reading) |-> [reading[i] EXCEPT !.shown = FALSE]]

\* what the user types unless a run says otherwise
TextInputs == {EmptyStr, <<" ", "a">>}

\* the state of a freshly loaded page in a given environment
InitUpload(session, local, failures, budget, values, picked) ==
  /\ isModalOpen = FALSE
  /\ loading = TRUE
  /\ generating = FALSE
  /\ generatedResume = FALSE
  /\ hasShownInitialModal = FALSE
  /\ allRepos = << >>
  /\ formData = NoForm
  /\ currentSection = "personal"
  /\ errors = {}
  /\ validationErrors = {}
  /\ repos = << >>
  /\ loadingRepos = FALSE
  /\ sessionStore = session
  /\ localStore = local
  /\ inflight = << >>
  /\ now = 1
  /\ crashed = FALSE
  /\ edits = 0
  /\ lastSaveOk = FALSE
  /\ saveFailures = 0
  /\ submitSection = "none"
  /\ failureBudget = failures
  /\ editBudget = budget
  /\ typed = values
  /\ imagePreview = NullPreview
  /\ imageError = ""
  /\ reading = << >>
  /\ files = picked

InitTyping(session, local, failures, budget, values) ==
  InitUpload(session, local, failures, budget, values, {})

InitState(session, local, failures, budget) ==
  InitTyping(session, local, failures, budget, TextInputs)

\* first visit, or a later one of the same tab: nothing stored, or the
\* record the form saved last time
Init ==
  \E session \in {Absent, JSONstringify(BlankRecord)} :
    InitState(session, Absent, MaxSaveFailures, MaxEdits)


\* --------------------------------------------------------------- inputs
\* what the user may type into a text field
PersonalFields == {"fullName", "email"}
EducationFields == {"institution", "degree", "field", "startDate", "endDate", "gpa"}
ExperienceFields == {"title", "organization", "startDate", "endDate", "description"}

\* ----------------------------------------------------- field error map
\* validationErrors: at most one message per key, key = (entry id, field)
PutError(map, key, msg) == {p \in map : p[1] # key} \cup {<<key, msg>>}
DeleteError(map, key) == {p \in map : p[1] # key}

\* a validator that records failures and never clears one
validateField_NeverClears(map, id, field, value) ==
  LET key == <<id, field>> IN
  IF field \in {"startDate", "endDate"} /\ Truthy(value) /\ ~validateDate(value)
  THEN PutError(map, key, "Invalid date format (use YYYY-MM or Present)")
  ELSE IF field = "gpa" /\ Truthy(value) /\ ~GpaMatches(value)
  THEN PutError(map, key, "Format: 3.8/4.0")
  ELSE IF field = "gpa" /\ Truthy(value)
                        /\ FloatGreater(GpaEarned(value), GpaTotal(value))
  THEN PutError(map, key, "GPA cannot exceed maximum")
  ELSE map

validateField(map, id, field, value) ==
  LET key == <<id, field>> IN
  IF field \in {"startDate", "endDate"}
  THEN IF Truthy(value) /\ ~validateDate(value)
       THEN PutError(map, key, "Invalid date format (use YYYY-MM or Present)")
       ELSE DeleteError(map, key)
  ELSE IF field = "gpa"
  THEN IF Truthy(value)
       THEN IF ~GpaMatches(value)
            THEN PutError(map, key, "Format: 3.8/4.0")
            ELSE IF FloatGreater(GpaEarned(value), GpaTotal(value))
                 THEN PutError(map, key, "GPA cannot exceed maximum")
                 ELSE DeleteError(map, key)
       ELSE DeleteError(map, key)
  ELSE map

\* ---------------------------------------------------- record mutations
\* variant: the record is kept only when the write went through
SetFormData_RollsBack(data) ==
  /\ AutoSave(data)
  /\ formData' = IF lastSaveOk' THEN data ELSE formData
  /\ edits' = edits + 1

\* setFormData(...) followed by the auto-save effect of the re-render
SetFormData(data) ==
  /\ formData' = data
  /\ AutoSave(data)
  /\ edits' = edits + 1

CanEdit(section) ==
  /\ FormMounted
  /\ currentSection = section
  /\ edits < editBudget

\* variant: a mutation callback also clears the submission errors
FormFrame_ClearsErrors ==
  /\ errors' = {}
  /\ UNCHANGED <<appVars, currentSection, inflight, crashed, submitSection>>

FormFrame == UNCHANGED <<appVars, currentSection, errors, inflight, crashed, submitSection>>

\* PersonalInfoForm.handleChange -> ResumeForm.updatePersonalInfo
PersonalHandleChange ==
  /\ CanEdit("personal")
  /\ \E field \in PersonalFields, value \in typed :
       SetFormData([formData EXCEPT !.personalInfo[field] = sanitizeString(value)])
  /\ FormFrame
  /\ UNCHANGED <<sectionVars, now>>
  /\ UNCHANGED envVars

\* --------------------------------------------------------- profile image
maxSize == 5 * 1024 * 1024
allowedTypes == {"image/jpeg", "image/jpg", "image/png", "image/webp"}

\* variant: a file of exactly maxSize bytes is refused
validateImageFile_Below(file) ==
  IF file.type \notin allowedTypes
  THEN [valid |-> FALSE, error |-> "Only JPEG, PNG, and WebP images are allowed"]
  ELSE IF file.size >= maxSize
  THEN [valid |-> FALSE, error |-> "Image size must be less than 5MB"]
  ELSE [valid |-> TRUE, error |-> ""]

validateImageFile(file) ==
  IF file.type \notin allowedTypes
  THEN [valid |-> FALSE, error |-> "Only JPEG, PNG, and WebP images are allowed"]
  ELSE IF file.size > maxSize
  THEN [valid |-> FALSE, error |-> "Image size must be less than 5MB"]
  ELSE [valid |-> TRUE, error |-> ""]

\* reader.result of readAsDataURL: a data URL of the file's content
imageToBase64(file) == <<"data:", file.type, ";base64,", file.name>>

\* variant: the callback spreads the record of the render it was made in
updatePersonalInfo_FromRender(prev, rendered, field, value) ==
  [rendered EXCEPT !.personalInfo[field] = value]

\* ResumeForm.updatePersonalInfo as the updater of setFormData: prev is the
\* record at the time the update is applied, rendered the record of the
\* render that made the callback
updatePersonalInfo(prev, rendered, field, value) ==
  [prev EXCEPT !.personalInfo[field] = value]

\* PersonalInfoForm.handleImageUpload up to its await; the file input is
\* rendered while there is no preview
handleImageUpload ==
  /\ FormMounted
  /\ currentSection = "personal"
  /\ imagePreview = NullPreview
  /\ Len(reading) < MaxUploads
  /\ \E file \in files :
       LET validation == validateImageFile(file) IN
       IF ~validation.valid
       THEN /\ imageError' = validation.error
            /\ UNCHANGED <<imagePreview, reading>>
       ELSE /\ reading' = Append(reading, [file |-> file, shown |-> TRUE, state |-> "reading",
                                           rendered |-> formData, prev |-> NoForm])
            /\ UNCHANGED <<imagePreview, imageError>>
  /\ UNCHANGED <<appVars, formVars, validationErrors, repos, loadingRepos, storeVars,
                 inflight, now, crashed, histVars>>
  /\ UNCHANGED envVars

\* reader.onload: the await in handleImageUpload resumes; the setters of a
\* PersonalInfoForm instance that is gone (shown = FALSE) set nothing
ImageConverted ==
  /\ FormMounted
  /\ edits < editBudget
  /\ \E i \in 1..Len(reading) :
       LET base64 == imageToBase64(reading[i].file) IN
       /\ reading[i].state = "reading"
       /\ imagePreview' = (IF reading[i].shown THEN base64 ELSE imagePreview)
       /\ imageError' = (IF reading[i].shown THEN "" ELSE imageError)
       /\ reading' = [reading EXCEPT ![i].state = "done", ![i].prev = formData]
       /\ SetFormData(updatePersonalInfo(formData, reading[i].rendered, "profileImage", base64))
  /\ FormFrame
  /\ UNCHANGED <<validationErrors, repos, loadingRepos, now>>
  /\ UNCHANGED envVars

\* reader.onerror: the catch block of handleImageUpload
ImageConversionFailed ==
  /\ FormMounted
  /\ \E i \in 1..Len(reading) :
       /\ reading[i].state = "reading"
       /\ imageError' = (IF reading[i].shown THEN "Failed to process image" ELSE imageError)
       /\ reading' = [reading EXCEPT ![i].state = "failed"]
  /\ UNCHANGED <<appVars, formVars, validationErrors, repos, loadingRepos, imagePreview,
                 storeVars, inflight, now, crashed, histVars>>
  /\ UNCHANGED envVars

\* the remove button over the preview
RemoveImage ==
  /\ CanEdit("personal")
  /\ imagePreview # NullPreview
  /\ imagePreview' = NullPreview
  /\ SetFormData(updatePersonalInfo(formData, formData, "profileImage", EmptyStr))
  /\ FormFrame
  /\ UNCHANGED <<validationErrors, repos, loadingRepos, imageError, reading, now>>
  /\ UNCHANGED envVars

\* EducationForm.addEducation -> ResumeForm.updateEducation
AddEducation ==
  /\ CanEdit("education")
  /\ Len(formData.education) < MaxEdu
  /\ \E t \in now..MaxNow :
       /\ now' = t
       /\ SetFormData([formData EXCEPT !.education = Append(@, NewEducation(t))])
  /\ FormFrame
  /\ UNCHANGED sectionVars
  /\ UNCHANGED envVars

\* EducationForm.updateEducation (with validateField)
UpdateEducation ==
  /\ CanEdit("education")
  /\ \E i \in 1..Len(formData.education), field \in EducationFields, value \in typed :
       LET id == formData.education[i].id IN
       /\ SetFormData([formData EXCEPT !.education =
            [j \in 1..Len(@) |->
               IF @[j].id = id THEN [@[j] EXCEPT ![field] = sanitizeString(value)] ELSE @[j]]])
       /\ validationErrors' = validateField(validationErrors, id, field, value)
  /\ FormFrame
  /\ UNCHANGED <<repos, loadingRepos, uploadVars, now>>
  /\ UNCHANGED envVars

\* EducationForm.deleteEducation
DeleteEducation ==
  /\ CanEdit("education")
  /\ \E i \in 1..Len(formData.education) :
       LET id == formData.education[i].id IN
       SetFormData([formData EXCEPT !.education = SelectSeq(@, LAMBDA edu : edu.id # id)])
  /\ FormFrame
  /\ UNCHANGED <<sectionVars, now>>
  /\ UNCHANGED envVars

\* ExperienceForm.addExperience -> ResumeForm.updateExperiences
AddExperience ==
  /\ CanEdit("experience")
  /\ Len(formData.experiences) < MaxExp
  /\ \E t \in now..MaxNow, type \in EXPERIENCE_TYPES :
       /\ now' = t
       /\ SetFormData([formData EXCEPT !.experiences = Append(@, NewExperience(t, type))])
  /\ FormFrame
  /\ UNCHANGED sectionVars
  /\ UNCHANGED envVars

\* ExperienceForm.updateExperience
UpdateExperience ==
  /\ CanEdit("experience")
  /\ \E i \in 1..Len(formData.experiences), field \in ExperienceFields, value \in typed :
       LET id == formData.experiences[i].id
           clean == IF field = "description" THEN sanitizeDescription(value)
                    ELSE sanitizeString(value)
       IN SetFormData([formData EXCEPT !.experiences =
            [j \in 1..Len(@) |-> IF @[j].id = id THEN [@[j] EXCEPT ![field] = clean] ELSE @[j]]])
  /\ FormFrame
  /\ UNCHANGED <<sectionVars, now>>
  /\ UNCHANGED envVars

\* ExperienceForm.deleteExperience
DeleteExperience ==
  /\ CanEdit("experience")
  /\ \E i \in 1..Len(formData.experiences) :
       LET id == formData.experiences[i].id IN
       SetFormData([formData EXCEPT !.experiences = SelectSeq(@, LAMBDA exp : exp.id # id)])
  /\ FormFrame
  /\ UNCHANGED <<sectionVars, now>>
  /\ UNCHANGED envVars

\* ExperienceForm.toggleRepoSelection -> ResumeForm.updateSelectedRepos;
\* a repository can be clicked once the section's own list is loaded
ToggleRepoSelection ==
  /\ CanEdit("experience")
  /\ ~loadingRepos
  /\ \E k \in 1..Len(repos) :
       LET repoId == repos[k] IN
       IF SelectedRepo(formData, repoId)
       THEN SetFormData([formData EXCEPT !.selectedRepoIds = SelectSeq(@, LAMBDA id : id # repoId)])
       ELSE SetFormData([formData EXCEPT !.selectedRepoIds = Append(@, repoId)])
  /\ FormFrame
  /\ UNCHANGED <<sectionVars, now>>
  /\ UNCHANGED envVars

\* ExperienceForm.loadRepos settles (resolve or reject)
ExperienceLoadReposSettle ==
  /\ FormMounted
  /\ loadingRepos
  /\ \E ok \in BOOLEAN : repos' = IF ok THEN FetchedRepos ELSE repos
  /\ loadingRepos' = FALSE
  /\ UNCHANGED <<appVars, formVars, validationErrors, uploadVars, storeVars, inflight, now,
                 crashed, histVars>>
  /\ UNCHANGED envVars


\* ------------------------------------------------------------ navigation
NavFrame == UNCHANGED <<appVars, formData, errors, storeVars, inflight, now, crashed, edits, lastSaveOk, saveFailures>>

\* variant: no guard at the last section, the cursor wraps to the first
goToNextSection_Wraps ==
  /\ FormMounted
  /\ LET currentIndex == getCurrentSectionIndex IN
     IF currentIndex < Len(SECTIONS)
     THEN SetCurrentSection(SECTIONS[currentIndex + 1])
     ELSE SetCurrentSection(SECTIONS[1])
  /\ submitSection' = "none"
  /\ NavFrame
  /\ UNCHANGED envVars

goToNextSection ==
  /\ FormMounted
  /\ LET currentIndex == getCurrentSectionIndex IN
     IF currentIndex < Len(SECTIONS)
     THEN SetCurrentSection(SECTIONS[currentIndex + 1])
     ELSE UNCHANGED <<currentSection, sectionVars>>
  /\ submitSection' = "none"
  /\ NavFrame
  /\ UNCHANGED envVars

goToPrevSection ==
  /\ FormMounted
  /\ LET currentIndex == getCurrentSectionIndex IN
     IF currentIndex > 1
     THEN SetCurrentSection(SECTIONS[currentIndex - 1])
     ELSE UNCHANGED <<currentSection, sectionVars>>
  /\ submitSection' = "none"
  /\ NavFrame
  /\ UNCHANGED envVars

\* a tab of the section strip: onClick={() => setCurrentSection(section.id)}
JumpTo(s) ==
  /\ FormMounted
  /\ SetCurrentSection(s)
  /\ submitSection' = "none"
  /\ NavFrame
  /\ UNCHANGED envVars

JumpToSection == \E i \in 1..Len(SECTIONS) : JumpTo(SECTIONS[i])

\* ------------------------------------------------------------ submission
\* variant: the indicator is raised but no call goes out
onSubmit_Dropped(data) ==
  /\ Len(inflight) < MaxInflight
  /\ generating' = TRUE
  /\ inflight' = inflight
  /\ UNCHANGED <<isModalOpen, loading, generatedResume, hasShownInitialModal, allRepos>>

\* App.handleGenerateResume up to its await: the prepared payload goes out
onSubmit(data) ==
  /\ Len(inflight) < MaxInflight
  /\ generating' = TRUE
  /\ inflight' = Append(inflight, [formData |-> data,
                                   resumeData |-> prepareResumeData(data, allRepos)])
  /\ UNCHANGED <<isModalOpen, loading, generatedResume, hasShownInitialModal, allRepos>>

\* variant: the early return is missing, every submit goes on to the call
handleSubmit_NoReturn ==
  /\ FormMounted
  /\ getCurrentSectionIndex = Len(SECTIONS)
  /\ submitSection' = currentSection
  /\ onSubmit(formData)
  /\ FormFollows(isModalOpen, TRUE)
  /\ UNCHANGED <<now, edits>>
  /\ UNCHANGED envVars

\* ResumeForm.handleSubmit; the GENERATE button exists on the last section only
handleSubmit ==
  /\ FormMounted
  /\ getCurrentSectionIndex = Len(SECTIONS)
  /\ submitSection' = currentSection
  /\ LET validationErrors_ == validateFormData(formData) IN
     IF validationErrors_ # {}
     THEN /\ errors' = validationErrors_
          /\ UNCHANGED <<appVars, formData, currentSection, sectionVars,
                         storeVars, inflight, lastSaveOk, saveFailures, crashed>>
     ELSE /\ onSubmit(formData)
          /\ FormFollows(isModalOpen, TRUE)
  /\ UNCHANGED <<now, edits>>
  /\ UNCHANGED envVars

\* the generateResume promise resolves: result stored, modal closed
GenerateResolve ==
  /\ ~crashed
  /\ \E i \in 1..Len(inflight) :
       inflight' = [j \in 1..(Len(inflight) - 1) |-> IF j < i THEN inflight[j] ELSE inflight[j + 1]]
  /\ generatedResume' = TRUE
  /\ isModalOpen' = FALSE
  /\ generating' = FALSE
  /\ FormFollows(FALSE, FALSE)
  /\ UNCHANGED <<loading, hasShownInitialModal, allRepos, now, edits, submitSection>>
  /\ UNCHANGED envVars

\* variant: generating is cleared on success only (no finally block)
GenerateReject_KeepsIndicator ==
  /\ ~crashed
  /\ \E i \in 1..Len(inflight) :
       inflight' = [j \in 1..(Len(inflight) - 1) |-> IF j < i THEN inflight[j] ELSE inflight[j + 1]]
  /\ FormFollows(isModalOpen, generating)
  /\ UNCHANGED <<appVars, now, edits, submitSection>>
  /\ UNCHANGED envVars

\* the generateResume promise rejects (the fetch branch, taken when
\* CONFIG.USE_MOCK_DATA is off): alert, generating cleared, form returns
GenerateReject ==
  /\ ~crashed
  /\ \E i \in 1..Len(inflight) :
       inflight' = [j \in 1..(Len(inflight) - 1) |-> IF j < i THEN inflight[j] ELSE inflight[j + 1]]
  /\ generating' = FALSE
  /\ FormFollows(isModalOpen, FALSE)
  /\ UNCHANGED <<isModalOpen, loading, generatedResume, hasShownInitialModal, allRepos,
                 now, edits, submitSection>>
  /\ UNCHANGED envVars

\* ------------------------------------------------------------------- App
\* App.loadRepos settles; the first-load effect then opens the modal
AppLoadReposSettle ==
  /\ ~crashed
  /\ loading
  /\ \E ok \in BOOLEAN : allRepos' = IF ok THEN FetchedRepos ELSE allRepos
  /\ loading' = FALSE
  /\ isModalOpen' = (IF ~hasShownInitialModal THEN TRUE ELSE isModalOpen)
  /\ hasShownInitialModal' = TRUE
  /\ FormFollows(isModalOpen', generating)
  /\ submitSection' = (IF isModalOpen' # isModalOpen THEN "none" ELSE submitSection)
  /\ UNCHANGED <<generating, generatedResume, inflight, now, edits>>
  /\ UNCHANGED envVars

\* backdrop or close button of the modal
handleCloseModal ==
  /\ ~crashed
  /\ isModalOpen
  /\ isModalOpen' = FALSE
  /\ FormFollows(FALSE, generating)
  /\ submitSection' = "none"
  /\ UNCHANGED <<loading, generating, generatedResume, hasShownInitialModal, allRepos,
                 inflight, now, edits>>
  /\ UNCHANGED envVars

\* the CREATE / EDIT RESUME button, disabled while generating
handleOpenModal ==
  /\ ~crashed
  /\ ~generating
  /\ ~isModalOpen
  /\ isModalOpen' = TRUE
  /\ FormFollows(TRUE, generating)
  /\ UNCHANGED <<loading, generating, generatedResume, hasShownInitialModal, allRepos,
                 inflight, now, edits, submitSection>>
  /\ UNCHANGED envVars

\* the page is reloaded: component state starts over, both stores survive,
\* promises of the old page are gone
Reload ==
  /\ ~loading
  /\ isModalOpen' = FALSE
  /\ loading' = TRUE
  /\ generating' = FALSE
  /\ generatedResume' = FALSE
  /\ hasShownInitialModal' = FALSE
  /\ allRepos' = << >>
  /\ formData' = NoForm
  /\ currentSection' = "personal"
  /\ errors' = {}
  /\ validationErrors' = {}
  /\ repos' = << >>
  /\ loadingRepos' = FALSE
  /\ imagePreview' = NullPreview
  /\ imageError' = ""
  /\ reading' = << >>
  /\ inflight' = << >>
  /\ crashed' = FALSE
  /\ submitSection' = "none"
  /\ UNCHANGED <<storeVars, now, edits, lastSaveOk, saveFailures>>
  /\ UNCHANGED envVars

Edit ==
  \/ PersonalHandleChange
  \/ AddEducation \/ UpdateEducation \/ DeleteEducation
  \/ AddExperience \/ UpdateExperience \/ DeleteExperience
  \/ ToggleRepoSelection

Navigate == goToNextSection \/ goToPrevSection \/ JumpToSection

Lifecycle ==
  \/ AppLoadReposSettle \/ handleCloseModal \/ handleOpenModal \/ Reload
  \/ ExperienceLoadReposSettle

Submission == handleSubmit \/ GenerateResolve \/ GenerateReject

Next == Edit \/ Navigate \/ Lifecycle \/ Submission

Spec == Init /\ [][Next]_vars


\* ------------------------------------------- records found in storage
BlankText == <<" ">>

CompleteEducation ==
  [NewEducation(0) EXCEPT !.institution = AText, !.degree = AText, !.field = AText,
                          !.startDate = ADate, !.endDate = PresentLiteral]

RequiredEducationFields == {"institution", "degree", "field", "startDate", "endDate"}

StoredEducationEntries ==
  {CompleteEducation}
    \cup {[CompleteEducation EXCEPT ![f] = EmptyStr] : f \in RequiredEducationFields}

CompleteExperience ==
  [NewExperience(0, "work") EXCEPT !.title = AText, !.organization = AText,
                                   !.startDate = ADate, !.endDate = PresentLiteral]

RequiredExperienceFields == {"title", "organization", "startDate", "endDate"}

LinkedTo(exp, repo) == [exp EXCEPT !.repoId = repo, !.repoData = repo]

StoredExperienceEntries ==
  {CompleteExperience, LinkedTo(CompleteExperience, 1),
   LinkedTo([CompleteExperience EXCEPT !.title = EmptyStr], 1)}
    \cup {[CompleteExperience EXCEPT ![f] = EmptyStr] : f \in RequiredExperienceFields}

\* entries of an earlier session carry earlier timestamps as ids
WithStoredIds(list) == [i \in 1..Len(list) |-> [list[i] EXCEPT !.id = 0 - i]]

ListsUpTo(S, n) == UNION {[1..k -> S] : k \in 0..n}

\* selections: lists of distinct repository ids
Selections == {sel \in ListsUpTo(RepoIds, NumRepos) :
                 \A i, j \in 1..Len(sel) : sel[i] = sel[j] => i = j}

\* education and experience lists of up to MaxStored entries each, with at
\* most MaxStored + 1 entries in the two lists together
StoredLists ==
  {l \in ListsUpTo(StoredEducationEntries, MaxStored)
            \X ListsUpTo(StoredExperienceEntries, MaxStored) :
     Len(l[1]) + Len(l[2]) <= MaxStored + 1}

StoredRecords ==
  {[personalInfo |-> [fullName |-> n, email |-> e, profileImage |-> EmptyStr],
    education |-> WithStoredIds(l[1]),
    experiences |-> WithStoredIds(l[2]),
    selectedRepoIds |-> sel] :
     n \in {EmptyStr, BlankText, AText}, e \in {EmptyStr, BlankText, AText},
     l \in StoredLists,
     sel \in Selections}

\* what either store may hold when the page loads
StoreValues ==
  {Absent, EmptyText, CorruptText, JSONstringify(JsonNull), JSONstringify(JsonOtherObject),
   JSONstringify(BlankRecord), JSONstringify(NoContentRecord)}

\* ------------------------------------------------- other specifications
\* submission of every stored record, without editing
InitSubmit ==
  \E r \in StoredRecords : InitState(JSONstringify(r), Absent, 0, 0)

NextSubmit ==
  \/ AppLoadReposSettle
  \/ goToNextSection \/ goToPrevSection \/ JumpToSection
  \/ handleSubmit \/ GenerateResolve \/ GenerateReject
  \/ handleOpenModal

SpecSubmit == InitSubmit /\ [][NextSubmit]_vars

\* loading from every combination of store contents
InitLoad ==
  \E session \in StoreValues, local \in StoreValues :
    InitState(session, local, MaxSaveFailures, 0)

NextLoad ==
  \/ AppLoadReposSettle \/ handleCloseModal \/ handleOpenModal \/ Reload
  \/ goToNextSection \/ goToPrevSection \/ JumpToSection

SpecLoad == InitLoad /\ [][NextLoad]_vars

\* editing the experience entries of a record that has no content yet, with
\* no repository selected
InitExperience ==
  InitState(JSONstringify(NoContentRecord), Absent, 0, MaxExperienceEdits)

NextExperience ==
  \/ AppLoadReposSettle \/ ExperienceLoadReposSettle
  \/ goToNextSection \/ goToPrevSection \/ JumpToSection
  \/ AddExperience \/ UpdateExperience \/ DeleteExperience
  \/ handleSubmit

SpecExperience == InitExperience /\ [][NextExperience]_vars

\* editing, closing, reopening and reloading with a session store whose
\* writes may throw; nothing is submitted
InitStorage ==
  \E session \in {Absent, JSONstringify(BlankRecord)} :
    InitState(session, Absent, MaxSaveFailures, MaxEdits)

NextStorage ==
  \/ AppLoadReposSettle \/ ExperienceLoadReposSettle
  \/ handleCloseModal \/ handleOpenModal \/ Reload
  \/ goToNextSection \/ goToPrevSection \/ JumpToSection
  \/ PersonalHandleChange
  \/ AddEducation \/ UpdateEducation \/ DeleteEducation
  \/ AddExperience \/ UpdateExperience \/ DeleteExperience
  \/ ToggleRepoSelection

SpecStorage == InitStorage /\ [][NextStorage]_vars

\* a snapshot an earlier visit left in the durable store: it passes validation
DurableSnapshot ==
  [NoContentRecord EXCEPT !.experiences = WithStoredIds(<<CompleteExperience>>)]

\* a new session (session store empty) over a retained durable snapshot:
\* editing, navigating, submitting, closing, reopening and reloading
InitSession ==
  InitState(Absent, JSONstringify(DurableSnapshot), 0, MaxEdits)

NextSession ==
  \/ AppLoadReposSettle \/ ExperienceLoadReposSettle
  \/ handleCloseModal \/ handleOpenModal \/ Reload
  \/ goToNextSection \/ goToPrevSection \/ JumpToSection
  \/ PersonalHandleChange
  \/ AddEducation \/ UpdateEducation \/ DeleteEducation
  \/ AddExperience \/ UpdateExperience \/ DeleteExperience
  \/ ToggleRepoSelection
  \/ handleSubmit \/ GenerateResolve \/ GenerateReject

SpecSession == InitSession /\ [][NextSession]_vars

\* personal details edited with session writes that may throw, then
\* submitted, with the call resolving or rejecting
InitRetry ==
  InitState(JSONstringify(DurableSnapshot), Absent, MaxSaveFailures, MaxEdits)

NextRetry ==
  \/ AppLoadReposSettle
  \/ handleCloseModal \/ handleOpenModal
  \/ goToNextSection \/ goToPrevSection \/ JumpToSection
  \/ PersonalHandleChange
  \/ handleSubmit \/ GenerateResolve \/ GenerateReject

SpecRetry == InitRetry /\ [][NextRetry]_vars

\* a valid record with one education entry and one experience entry
DatedSnapshot ==
  [DurableSnapshot EXCEPT !.education = WithStoredIds(<<CompleteEducation>>)]

\* what is typed into date inputs: nothing, a year-month, the present
\* literal, and text that is neither
DateInputs == {EmptyStr, ADate, PresentLiteral, <<"2", "0">>}

\* dates of the stored entries edited, then the record submitted
InitDates ==
  InitTyping(JSONstringify(DatedSnapshot), Absent, 0, MaxEdits, DateInputs)

NextDates ==
  \/ AppLoadReposSettle \/ ExperienceLoadReposSettle
  \/ goToNextSection \/ goToPrevSection \/ JumpToSection
  \/ UpdateEducation \/ UpdateExperience
  \/ handleSubmit \/ GenerateResolve

SpecDates == InitDates /\ [][NextDates]_vars


\* ------------------------------------------- specification: education fields
AGpa == <<"3", "/", "4">>
ExceedingGpa == <<"5", "/", "4">>

EducationInputs == {EmptyStr, <<" ">>, ADate, <<"2", "0">>, AGpa, ExceedingGpa}

\* one stored education entry; entries added, edited field by field, removed
InitEducation ==
  InitTyping(JSONstringify(DatedSnapshot), Absent, 0, MaxEdits, EducationInputs)

NextEducation ==
  \/ AppLoadReposSettle
  \/ goToNextSection \/ goToPrevSection \/ JumpToSection
  \/ AddEducation \/ UpdateEducation \/ DeleteEducation

SpecEducation == InitEducation /\ [][NextEducation]_vars


\* --------------------------------------------- specification: typed markup
BoldText == <<"<", "b", ">", "x", "<", "/", "b", ">">>
ScriptText == ScriptOpen \o <<">", "x">> \o ScriptClose
\* a script block wrapped around the pieces of another opening tag
NestedScriptText ==
  <<"<", "s", "c", "r">> \o ScriptOpen \o <<">">> \o ScriptClose
    \o <<"i", "p", "t", ">", "x">> \o ScriptClose

MarkupInputs == {EmptyStr, BoldText, ScriptText, NestedScriptText}

\* a stored record free of markup; every text field then typed into
InitMarkup ==
  InitTyping(JSONstringify(DatedSnapshot), Absent, 0, MaxEdits, MarkupInputs)

NextMarkup ==
  \/ AppLoadReposSettle \/ ExperienceLoadReposSettle
  \/ goToNextSection \/ goToPrevSection \/ JumpToSection
  \/ PersonalHandleChange \/ UpdateEducation \/ UpdateExperience

SpecMarkup == InitMarkup /\ [][NextMarkup]_vars


\* ------------------------------------- specification: forwarded repositories
\* a stored record whose experiences link repository 1, with or without a
\* manual entry beside it, under every stored selection; repositories are
\* then toggled and the record submitted
InitForward ==
  \E sel \in Selections,
     exps \in {<<LinkedTo(CompleteExperience, 1)>>,
               <<CompleteExperience, LinkedTo(CompleteExperience, 1)>>} :
    InitState(JSONstringify([NoContentRecord EXCEPT !.experiences = WithStoredIds(exps),
                                                    !.selectedRepoIds = sel]),
              Absent, 0, MaxEdits)

NextForward ==
  \/ AppLoadReposSettle \/ ExperienceLoadReposSettle
  \/ goToNextSection \/ goToPrevSection \/ JumpToSection
  \/ ToggleRepoSelection
  \/ handleSubmit \/ GenerateResolve

SpecForward == InitForward /\ [][NextForward]_vars


\* ------------------------------------------ specification: one typed value
\* date texts (a year part, a separator and two month characters, and the
\* spellings of Present), GPA texts, texts with markup and every text of up
\* to four characters over '<', '>', 'b' and the blank
FieldInputs ==
  {y \o <<sep, m1, m2>> :
     y \in {<<"2", "0", "2", "0">>, <<"2", "0", "2">>, <<"2", "0", "a", "0">>},
     sep \in {"-", "/"}, m1 \in {"0", "1", "2"},
     m2 \in {"0", "1", "2", "3", "4", "5", "6", "7", "8", "9"}}
    \cup {PresentLiteral, <<"p", "r", "e", "s", "e", "n", "t">>,
          PresentLiteral \o <<" ">>, <<" ">> \o ADate, ADate \o <<"1">>,
          <<"2", "0", "2", "0", "-", "1">>, EmptyStr}
    \cup {<<"3", ".", "8", "/", "4", ".", "0">>, <<"4", ".", "2", "/", "4", ".", "0">>,
          <<"3", ".", "8">>, <<"x", "/", "y">>, <<"4", "/", "4">>, <<"0", "/", "0">>,
          <<"3", ".", "8", " ", "/", " ", "4", ".", "0">>, <<"3", ".", "/", "4", ".">>,
          <<"1", ".", "5", "/", "1", ".", "2", "5">>, <<"1", ".", "2", "5", "/", "1", ".", "5">>,
          <<"1", "0", "/", "9">>, <<"9", "/", "1", "0">>,
          <<"3", "/", "4", "/", "5">>, <<"/", "4">>, <<"3", "/">>, <<" ">>,
          <<"a", "3", "/", "4">>, <<"3", "/", "4", "a">>,
          <<"4", ".", "0", "0", "0", "0", "0", "0", "0", "0", "0", "0", "0", "0",
            "0", "0", "0", "0", "0", "1", "/", "4", ".", "0">>,
          <<"4", ".", "0", "0", "0", "0", "0", "0", "0", "0", "0", "0", "0", "0",
            "0", "0", "1", "/", "4", ".", "0">>}
    \cup {BoldText, ScriptText, NestedScriptText, BoldText \o <<" ">> \o BoldText,
          <<" ">> \o BoldText \o <<" ", "a", " ">>, <<"<", "b", ">", " ", "a">>,
          <<"<", ">", "a", ">">>, <<"<", "<", "b", ">", ">">>, <<"<", "<", "b", ">", "b", ">", "x">>,
          <<"a", "<", "b">>, <<"a", ">", "b", "<">>, <<"<", " ", ">">>,
          <<"<">> \o ScriptText \o <<"b", ">">>,
          <<"<", "s", "c", "r", "<", "b", ">", "i", "p", "t", ">", "x">> \o ScriptClose,
          <<"<", "S", "C", "R", "I", "P", "T", " ", "x", ">", "a">> \o ScriptClose \o <<"y">>,
          ScriptOpen \o <<"x", ">", "a">> \o ScriptClose,
          ScriptOpen \o <<">", "a", "<", "/", "s", "c", "r", "i", "p", "t", " ", ">">>}
    \cup UNION {[1..n -> {"<", ">", "b", " "}] : n \in 1..4}

\* the stored entry's fields receive one text, whatever that text is
InitField ==
  \E value \in FieldInputs :
    InitTyping(JSONstringify(DatedSnapshot), Absent, 0, MaxEdits, {value})

NextField ==
  \/ AppLoadReposSettle
  \/ goToNextSection \/ goToPrevSection
  \/ UpdateEducation

SpecField == InitField /\ [][NextField]_vars


\* ------------------------------------------- specification: profile image
MiB == 1024 * 1024

ImageFiles ==
  {[name |-> "a", type |-> "image/png", size |-> 2 * MiB],
   [name |-> "a", type |-> "image/jpeg", size |-> 5 * MiB],
   [name |-> "a", type |-> "image/jpg", size |-> 2 * MiB],
   [name |-> "a", type |-> "image/webp", size |-> 5 * MiB + 1],
   [name |-> "a", type |-> "image/jpeg", size |-> 6 * MiB],
   [name |-> "a", type |-> "image/svg+xml", size |-> 2 * MiB],
   [name |-> "a", type |-> "image/gif", size |-> 6 * MiB],
   [name |-> "a", type |-> "", size |-> 2 * MiB]}

\* one file is picked, once or again, while the record is edited
InitImage ==
  \E file \in ImageFiles :
    InitUpload(JSONstringify(NoContentRecord), Absent, 0, MaxEdits, TextInputs, {file})

NextImage ==
  \/ AppLoadReposSettle \/ ExperienceLoadReposSettle
  \/ goToNextSection \/ goToPrevSection \/ JumpToSection
  \/ PersonalHandleChange \/ AddEducation \/ AddExperience \/ ToggleRepoSelection
  \/ handleImageUpload \/ ImageConverted \/ ImageConversionFailed \/ RemoveImage

SpecImage == InitImage /\ [][NextImage]_vars


\* ================================================================ claims
IsBlank(text) == \A i \in 1..Len(text) : text[i] = " "

ManualExperiences(data) ==
  {i \in 1..Len(data.experiences) : data.experiences[i].repoId = NullRepo}

EducationHasEmptyField(data) ==
  \E i \in 1..Len(data.education), f \in RequiredEducationFields :
    data.education[i][f] = EmptyStr

ManualExperienceHasEmptyField(data) ==
  \E i \in ManualExperiences(data), f \in RequiredExperienceFields :
    data.experiences[i][f] = EmptyStr

NoContent(data) == data.selectedRepoIds = << >> /\ ManualExperiences(data) = {}

\* the error keys as the validation rules state them
ClaimedErrorKeys(data) ==
  {k \in {"fullName", "email", "education", "experiences", "content"} :
     \/ k = "fullName" /\ IsBlank(data.personalInfo.fullName)
     \/ k = "email" /\ IsBlank(data.personalInfo.email)
     \/ k = "education" /\ EducationHasEmptyField(data)
     \/ k = "experiences" /\ ManualExperienceHasEmptyField(data)
     \/ k = "content" /\ NoContent(data)}

\* C1: when validation of the current record finds errors, submit stores
\* exactly that error set, makes no collaborator call, and leaves the record
\* and the active section as they were.
C1_BlockedSubmit ==
  [][(handleSubmit /\ validateFormData(formData) # {})
       => /\ errors' = validateFormData(formData)
          /\ inflight' = inflight
          /\ generating' = generating
          /\ formData' = formData
          /\ currentSection' = currentSection]_vars

C1_Witness ==
  /\ FormMounted
  /\ submitSection = "experience"
  /\ errors # {}
  /\ errors = validateFormData(formData)
  /\ inflight = << >>

\* C2: when validation of the current record finds nothing, submit clears the
\* error state and makes exactly one collaborator call, with the current record.
C2_CleanSubmit ==
  [][(handleSubmit /\ validateFormData(formData) = {})
       => /\ errors' = {}
          /\ Len(inflight') = Len(inflight) + 1
          /\ inflight'[Len(inflight')].formData = formData
          /\ \A i \in 1..Len(inflight) : inflight'[i] = inflight[i]]_vars

C2_Witness ==
  /\ generating
  /\ Len(inflight) = 1
  /\ HasRecordShape(inflight[1].formData)
  /\ validateFormData(inflight[1].formData) = {}
  /\ errors = {}

\* C3: the error set a submit produces has the key fullName iff the name is
\* empty or blank, email iff the email is empty or blank, education iff some
\* education entry has an empty required field, experiences iff some entry
\* without repository link has an empty required field, content iff there is
\* neither a selected repository nor an entry without repository link.
C3_ValidationKeys ==
  [][handleSubmit => errors' = ClaimedErrorKeys(formData)]_vars

C3_Witness ==
  /\ FormMounted
  /\ submitSection = "experience"
  /\ errors = {"fullName", "education", "content"}
  /\ \E i \in 1..Len(formData.experiences) :
       /\ formData.experiences[i].repoId # NullRepo
       /\ formData.experiences[i].title = EmptyStr

OtherRulesMet(data) ==
  /\ ~IsBlank(data.personalInfo.email)
  /\ ~EducationHasEmptyField(data)
  /\ ~ManualExperienceHasEmptyField(data)
  /\ ~NoContent(data)

\* C4 as stated: a submit with an empty name and a non-empty email gives
\* exactly the key fullName and makes no collaborator call.
C4_Original ==
  [][(/\ handleSubmit
      /\ formData.personalInfo.fullName = EmptyStr
      /\ formData.personalInfo.email # EmptyStr)
       => (errors' = {"fullName"} /\ inflight' = inflight)]_vars

\* C4 amended: a submit with an empty name and a non-empty email makes no
\* collaborator call and gives an error set that has the key fullName; the
\* set is exactly {fullName} when the email is not blank and the education,
\* experience and content rules are met.
C4_EmptyNameBlocks ==
  [][(/\ handleSubmit
      /\ formData.personalInfo.fullName = EmptyStr
      /\ formData.personalInfo.email # EmptyStr)
       => /\ "fullName" \in errors'
          /\ inflight' = inflight
          /\ generating' = generating
          /\ (OtherRulesMet(formData) => errors' = {"fullName"})]_vars

C4_Witness ==
  /\ FormMounted
  /\ submitSection = "experience"
  /\ formData.personalInfo.fullName = EmptyStr
  /\ formData.personalInfo.email # EmptyStr
  /\ errors = {"fullName"}
  /\ inflight = << >>

HasFilledManualExperience(data) ==
  \E i \in ManualExperiences(data) :
    \A f \in RequiredExperienceFields : data.experiences[i][f] # EmptyStr

\* C5: a submit with no selected repository and no experience entry is
\* blocked with the content error; a submit made once an experience entry
\* with title, organization, start and end date has been added gives an
\* error set without the content error.
C5_ContentError ==
  [][handleSubmit
       => /\ (formData.selectedRepoIds = << >> /\ formData.experiences = << >>)
               => ("content" \in errors' /\ inflight' = inflight)
          /\ HasFilledManualExperience(formData) => "content" \notin errors']_vars

\* the blocked submit has happened and the entry has since been added and filled
C5_Witness ==
  /\ FormMounted
  /\ "content" \in errors
  /\ formData.selectedRepoIds = << >>
  /\ Len(formData.experiences) = 1
  /\ formData.experiences[1].id >= 1
  /\ HasFilledManualExperience(formData)
  /\ ENABLED handleSubmit

SectionSet == {SECTIONS[i] : i \in 1..Len(SECTIONS)}

FollowingSection(s) ==
  CASE s = "personal" -> "education" [] s = "education" -> "experience"
    [] s = "experience" -> "experience"

PrecedingSection(s) ==
  CASE s = "personal" -> "personal" [] s = "education" -> "personal"
    [] s = "experience" -> "education"

\* C6: the active section is always personal, education or experience and is
\* personal when a form instance starts; next moves one section forward and
\* does nothing at experience; previous moves one section back and does
\* nothing at personal; jump(s) is possible from every section and lands on s.
C6_SectionMachine ==
  /\ [](FormMounted => currentSection \in SectionSet)
  /\ [](FormMounted => \A s \in SectionSet : ENABLED JumpTo(s))
  /\ [][/\ (formData = NoForm /\ formData' # NoForm) => currentSection' = "personal"
        /\ goToNextSection => currentSection' = FollowingSection(currentSection)
        /\ goToPrevSection => currentSection' = PrecedingSection(currentSection)
        /\ \A s \in SectionSet : JumpTo(s) => currentSection' = s]_vars

C6_Witness ==
  /\ FormMounted
  /\ currentSection = "education"
  /\ generatedResume

\* C7: submit is taken from the last section only, and whether it is blocked
\* or hands the record over, the form is on the section the submit was taken
\* from for as long as the user has not navigated.
C7_SubmitKeepsSection ==
  submitSection # "none"
    => /\ submitSection = "experience"
       /\ FormMounted => currentSection = submitSection

Parses(text) == text.kind = "json"

\* the three tiers as the claim states them
ClaimedLoad(session, local) ==
  IF Parses(session) THEN session.value
  ELSE IF Parses(local) THEN local.value
  ELSE mockResumeData

\* C8: a new form instance starts from the session snapshot when it is there
\* and parses, else from the durable snapshot when it is there and parses,
\* else from the template.
C8_LoadTiers ==
  [][(formData = NoForm /\ formData' # NoForm)
       => formData' = ClaimedLoad(sessionStore, localStore)]_vars

\* C9: every value the form is given by load has all four slices.
C9_NoPartialRecord ==
  formData # NoForm => HasRecordShape(formData)

\* C10: while the last session write succeeded, the session store holds the
\* serialization of the in-memory record, and a fresh form instance would
\* load a record equal to it.
C10_SessionMirrorsRecord ==
  (FormMounted /\ lastSaveOk)
    => /\ sessionStore = JSONstringify(formData)
       /\ loadSavedFormData(sessionStore, localStore) = formData

C10_Witness ==
  /\ FormMounted
  /\ saveFailures > 0
  /\ lastSaveOk
  /\ edits = MaxEdits
  /\ formData # mockResumeData
  /\ formData # BlankRecord
  /\ sessionStore = JSONstringify(formData)

\* C11: no edit, navigation, submission or lifecycle step changes what the
\* durable store holds under the record key; only the session store is written.
C11_DurableStoreUntouched ==
  [][localStore' = localStore]_vars

\* edits have been saved and a submission has gone through, over a durable
\* snapshot that differs from the session snapshot
C11_Witness ==
  /\ edits = MaxEdits
  /\ generatedResume
  /\ lastSaveOk
  /\ sessionStore # Absent
  /\ sessionStore # localStore
  /\ localStore = JSONstringify(DurableSnapshot)

\* the session write of this step threw
WriteFailed == saveFailures' = saveFailures + 1

\* the form is shown and the run may still mutate the record
MayEdit(section) == FormMounted /\ currentSection = section /\ edits < editBudget

\* C12: a step whose session write throws crashes nothing, leaves the error
\* set and the session store as they were, and still applies its mutation to
\* the record in memory; after it the form takes further mutations.
C12_WriteFailureContained ==
  /\ [][WriteFailed =>
          /\ crashed' = crashed
          /\ errors' = errors
          /\ sessionStore' = sessionStore
          /\ formData' # NoForm
          /\ PersonalHandleChange =>
               \E field \in PersonalFields, value \in typed :
                 formData' = [formData EXCEPT !.personalInfo[field] = sanitizeString(value)]
          /\ AddEducation => Len(formData'.education) = Len(formData.education) + 1
          /\ DeleteEducation => Len(formData'.education) < Len(formData.education)
          /\ UpdateEducation =>
               \E i \in 1..Len(formData.education), field \in EducationFields,
                  value \in typed :
                 formData'.education[i][field] = sanitizeString(value)
          /\ AddExperience => Len(formData'.experiences) = Len(formData.experiences) + 1
          /\ DeleteExperience => Len(formData'.experiences) < Len(formData.experiences)
          /\ ToggleRepoSelection => formData'.selectedRepoIds # formData.selectedRepoIds]_vars
  /\ [](~lastSaveOk =>
          /\ MayEdit("personal") => ENABLED PersonalHandleChange
          /\ (MayEdit("education") /\ Len(formData.education) < MaxEdu) => ENABLED AddEducation
          /\ (MayEdit("experience") /\ Len(formData.experiences) < MaxExp)
               => ENABLED AddExperience)

\* a mutation has just been applied whose write threw: memory and store differ
C12_Witness ==
  /\ FormMounted
  /\ ~lastSaveOk
  /\ saveFailures = 1
  /\ edits = 1
  /\ errors = {}
  /\ Len(formData.education) = 2
  /\ sessionStore # JSONstringify(formData)
  /\ ENABLED UpdateEducation

\* C13: at most one generateResume call is outstanding; while one is, neither
\* submit nor the create/edit button is available, and a call only ever
\* starts when none is outstanding.
C13_OneCallOutstanding ==
  /\ [](Len(inflight) <= 1)
  /\ [](Len(inflight) = 1 => (~ENABLED handleSubmit /\ ~ENABLED handleOpenModal))
  /\ [][Len(inflight') > Len(inflight) => inflight = << >>]_vars

\* a call is pending and the user has closed the modal meanwhile
C13_Witness ==
  /\ Len(inflight) = 1
  /\ generating
  /\ ~isModalOpen
  /\ ENABLED GenerateResolve

CallSettles == GenerateResolve \/ GenerateReject

\* C14: generating is raised exactly while a generateResume call is
\* outstanding: a submit that starts a call raises it, the step in which the
\* call resolves or rejects clears it, and once it is cleared the form is
\* shown or can be opened again.
C14_IndicatorFollowsCall ==
  /\ [](generating <=> inflight # << >>)
  /\ [][/\ Len(inflight') > Len(inflight) => (~generating /\ generating')
        /\ CallSettles => (generating /\ ~generating')]_vars
  /\ []((~generating /\ ~loading /\ ~crashed) => (FormMounted \/ ENABLED handleOpenModal))

\* a second call is pending after an earlier one has resolved
C14_Witness ==
  /\ generatedResume
  /\ generating
  /\ Len(inflight) = 1
  /\ isModalOpen
  /\ formData = NoForm

\* C15: when the generateResume call rejects, the record of the form that
\* comes back is the record that was submitted.
C15_RecordSurvivesFailure ==
  [][(GenerateReject /\ formData' # NoForm) => formData' = inflight[1].formData]_vars

Ids(list) == [i \in 1..Len(list) |-> list[i].id]

DistinctIds(list) == \A i, j \in 1..Len(list) : list[i].id = list[j].id => i = j

\* C16: the ids within the education list and within the experience list are
\* pairwise distinct whatever the timing of the adds, and an update leaves
\* every entry's id as it was.
C16_IdsUniqueAndStable ==
  /\ [](FormMounted => (DistinctIds(formData.education) /\ DistinctIds(formData.experiences)))
  /\ [][/\ UpdateEducation => Ids(formData'.education) = Ids(formData.education)
        /\ UpdateExperience => Ids(formData'.experiences) = Ids(formData.experiences)]_vars

\* the list after deleteEducation(id): data.filter(edu => edu.id !== id)
WithoutId(list, id) == SelectSeq(list, LAMBDA edu : edu.id # id)

AssignedId == formData'.education[Len(formData'.education)].id

\* C17: removing the entry an add has just appended, by the id the add gave
\* it, gives back the list as it was before the add, and that id is not the
\* id of an entry that was already there.
C17_AddRemoveRoundTrip ==
  [][AddEducation =>
       /\ WithoutId(formData'.education, AssignedId) = formData.education
       /\ \A i \in 1..Len(formData.education) : formData.education[i].id # AssignedId]_vars

DateFields == {"startDate", "endDate"}

WellFormedDate(d) == d = EmptyStr \/ validateDate(d)

HasPresentStart(data) ==
  \/ \E i \in 1..Len(data.education) : data.education[i].startDate = PresentLiteral
  \/ \E i \in 1..Len(data.experiences) : data.experiences[i].startDate = PresentLiteral

\* C18 (first half): every start and end date the record holds is empty, a
\* year-month or the present literal.
C18_DatesInGrammar ==
  FormMounted =>
    /\ \A i \in 1..Len(formData.education), f \in DateFields :
         WellFormedDate(formData.education[i][f])
    /\ \A i \in 1..Len(formData.experiences), f \in DateFields :
         WellFormedDate(formData.experiences[i][f])

\* C18 (second half): a record that has the present literal as a start date
\* does not pass whole-record validation.
C18_PresentOnlyAsEnd ==
  [][(handleSubmit /\ HasPresentStart(formData))
       => (errors' # {} /\ inflight' = inflight)]_vars

\* C18: both halves.
C18_DatesWellFormed ==
  [](C18_DatesInGrammar) /\ C18_PresentOnlyAsEnd


\* a value the education form rejects for the field: a non-empty text that is
\* no date in a date field, or no "earned/total" with earned <= total in gpa
InvalidFor(field, value) ==
  /\ value # EmptyStr
  /\ \/ field \in {"startDate", "endDate"} /\ ~validateDate(value)
     \/ field = "gpa" /\ ~(/\ GpaMatches(value)
                           /\ ~FloatGreater(GpaEarned(value), GpaTotal(value)))

Recorded(map, key) == \E p \in map : p[1] = key

\* C19: update(id, field, value) on an education entry writes the sanitized
\* value into the entries with that id and leaves every other entry as it was,
\* valid or not; the error map then holds the key (id, field) exactly when
\* the value is an invalid date or GPA (so a later valid or empty value
\* removes the key), and no other key changes.
C19_UpdateWritesAndRecords ==
  [][UpdateEducation =>
      \E i \in 1..Len(formData.education), field \in EducationFields, value \in typed :
        LET id == formData.education[i].id
            key == <<id, field>>
        IN /\ Len(formData'.education) = Len(formData.education)
           /\ \A j \in 1..Len(formData.education) :
                formData'.education[j] =
                  IF formData.education[j].id = id
                  THEN [formData.education[j] EXCEPT ![field] = sanitizeString(value)]
                  ELSE formData.education[j]
           /\ Recorded(validationErrors', key) <=> InvalidFor(field, value)
           /\ {p \in validationErrors' : p[1] # key}
                = {p \in validationErrors : p[1] # key}]_vars

\* an added entry holds an exceeding GPA that is recorded as a failure, while
\* the stored entry stands untouched beside it
C19_Witness ==
  /\ FormMounted
  /\ Len(formData.education) = 2
  /\ formData.education[1] = DatedSnapshot.education[1]
  /\ formData.education[2].gpa = ExceedingGpa
  /\ Recorded(validationErrors, <<formData.education[2].id, "gpa">>)


\* a script block: <script ...> with a closing </script> somewhere after it
HasScriptBlock(text) ==
  \E i \in 1..Len(text) : ScriptOpensAt(text, i) /\ ClosePositions(text, i + 7) # {}

\* a markup tag: '<', at least one character other than '>', then '>'
HasTag(text) ==
  \E i \in 1..Len(text) :
    /\ text[i] = "<"
    /\ i + 1 <= Len(text)
    /\ text[i + 1] # ">"
    /\ TagEnds(text, i) # {}

\* the free-text values of the record: descriptions, and all the others
DescriptionTexts(data) ==
  {data.experiences[i].description : i \in 1..Len(data.experiences)}

PlainTexts(data) ==
  {data.personalInfo[f] : f \in PersonalFields}
    \cup {data.education[i][f] : i \in 1..Len(data.education), f \in EducationFields}
    \cup {data.experiences[i][f] :
            i \in 1..Len(data.experiences), f \in ExperienceFields \ {"description"}}

C20_NoScriptNoTag ==
  FormMounted =>
    /\ \A text \in DescriptionTexts(formData) \cup PlainTexts(formData) :
         ~HasScriptBlock(text)
    /\ \A text \in PlainTexts(formData) : ~HasTag(text)

\* an experience update leaves each description as it was or makes it a
\* typed text, trimmed, with script blocks removed and all else kept
C20_DescriptionKeepsMarkup ==
  [][UpdateExperience =>
      \A j \in 1..Len(formData'.experiences) :
        LET written == formData'.experiences[j].description IN
        \/ written = formData.experiences[j].description
        \/ \E value \in typed :
             /\ written = Trim(StripScripts(value))
             /\ ~HasScriptBlock(value) => written = Trim(value)]_vars

\* C20: every free-text value an update writes into the record contains no
\* script block; a description keeps its other markup, and every other text
\* field contains no markup tag at all.
C20_WrittenTextIsSafe == [](C20_NoScriptNoTag) /\ C20_DescriptionKeepsMarkup


Occurs(list, x) == \E i \in 1..Len(list) : list[i] = x

\* C21: the repository list of every payload handed to generateResume is the
\* fetched repository list restricted to the ids of the submitted record's
\* selected-repository set: a repository is forwarded exactly when it was
\* fetched and selected, once, whether or not an experience entry links it.
C21_ForwardedBySelectionAlone ==
  \A k \in 1..Len(inflight) :
    LET forwarded == inflight[k].resumeData.githubRepos
        selected == inflight[k].formData.selectedRepoIds
    IN /\ \A r \in RepoIds \cup {forwarded[i] : i \in 1..Len(forwarded)} :
            Occurs(forwarded, r) <=> (Occurs(allRepos, r) /\ Occurs(selected, r))
       /\ \A i, j \in 1..Len(forwarded) : forwarded[i] = forwarded[j] => i = j

\* a submitted record links the fetched repository 1 in an experience entry
\* without selecting it, and the payload forwards no repository
C21_Witness ==
  /\ Len(inflight) = 1
  /\ Occurs(allRepos, 1)
  /\ \E i \in 1..Len(inflight[1].formData.experiences) :
       inflight[1].formData.experiences[i].repoId = 1
  /\ ~Occurs(inflight[1].formData.selectedRepoIds, 1)
  /\ inflight[1].resumeData.githubRepos = << >>


\* C30: whenever a submitted record passes the content rule only because
\* its selected-repository set is non-empty (it has no experience entry
\* without a repository link), the payload handed to generateResume holds at
\* least one repository, however the two repository fetches ended.
C30_SelectionReachesPayload ==
  \A k \in 1..Len(inflight) :
    LET data == inflight[k].formData IN
    (/\ Len(data.selectedRepoIds) > 0
     /\ \A i \in 1..Len(data.experiences) : data.experiences[i].repoId # NullRepo)
      => Len(inflight[k].resumeData.githubRepos) >= 1


\* YYYY-MM: four digits, a hyphen, and a two-digit month from 01 to 12
IsYearMonth(d) ==
  /\ Len(d) = 7
  /\ \A k \in {1, 2, 3, 4, 6, 7} : IsDigit(d[k])
  /\ d[5] = "-"
  /\ 10 * DigitVal(d[6]) + DigitVal(d[7]) \in 1..12

\* C22: the date validator accepts exactly the case-sensitive literal
\* Present and the texts of the form YYYY-MM with a month from 01 to 12; it
\* rejects month 00, month 13 and every text of any other shape.
C22_ValidatorAcceptsExactly ==
  \A d \in typed :
    validateDate(d) <=> (d = PresentLiteral \/ IsYearMonth(d))

\* month 13 was typed into the start date and recorded as a failure
C22_Witness ==
  /\ FormMounted
  /\ typed = {<<"2", "0", "2", "0", "-", "1", "3">>}
  /\ \E i \in 1..Len(formData.education) :
       /\ formData.education[i].startDate = <<"2", "0", "2", "0", "-", "1", "3">>
       /\ Recorded(validationErrors, <<formData.education[i].id, "startDate">>)


\* a exceeds b as decimal numbers, for two number texts
DecimalGreater(a, b) ==
  LET decimals == IF FractionLen(a) > FractionLen(b) THEN FractionLen(a)
                  ELSE FractionLen(b)
  IN DigitsLess(Padded(b, decimals), Padded(a, decimals))

\* C23: GPA validation passes for every text of the form a/b (decimals
\* allowed) with a <= b, fails for every such text with a > b, and fails
\* for every non-empty text that is not of the form number/number.
C23_GpaValidation ==
  [][UpdateEducation =>
      \A value \in typed \ {EmptyStr}, i \in 1..Len(formData.education) :
        formData'.education[i].gpa # formData.education[i].gpa
          => (~Recorded(validationErrors', <<formData.education[i].id, "gpa">>)
                <=> (/\ GpaMatches(value)
                     /\ ~DecimalGreater(GpaEarned(value), GpaTotal(value))))]_vars


\* C24: strict sanitization is idempotent: for every input text s,
\* sanitizeString(sanitizeString(s)) equals sanitizeString(s), and
\* sanitizeString(s) contains no script block and no markup tag.
C24_StrictSanitizeIdempotent ==
  \A input \in typed :
    LET clean == sanitizeString(input) IN
    /\ sanitizeString(clean) = clean
    /\ ~HasScriptBlock(clean)
    /\ ~HasTag(clean)

\* the script block nested in a split tag was typed into the institution
\* field, and the record holds what is left of it
C24_Witness ==
  /\ FormMounted
  /\ typed = {NestedScriptText}
  /\ \E i \in 1..Len(formData.education) : formData.education[i].institution = <<"x">>


\* the file is a JPEG, PNG or WebP image of at most 5 MiB
AllowedImage(file) ==
  /\ file.type \in {"image/jpeg", "image/jpg", "image/png", "image/webp"}
  /\ file.size <= 5 * 1024 * 1024

\* C25: an uploaded image is accepted iff its MIME type is in the allow-list
\* (JPEG, PNG, WebP) and its size is at most 5 MiB; a rejected upload yields
\* a rejection that names its cause (type or size) and leaves both the image
\* preview and the record's profile image unchanged.
C25_UploadAcceptedIffAllowed ==
  [][handleImageUpload =>
      \A file \in files :
        IF AllowedImage(file)
        THEN /\ Len(reading') = Len(reading) + 1
             /\ reading'[Len(reading')].file = file
             /\ reading'[Len(reading')].state = "reading"
        ELSE /\ reading' = reading
             /\ imageError' \in
                  (IF file.size > 5 * 1024 * 1024
                   THEN {"Image size must be less than 5MB"} ELSE {})
                  \cup
                  (IF file.type \notin {"image/jpeg", "image/jpg", "image/png", "image/webp"}
                   THEN {"Only JPEG, PNG, and WebP images are allowed"} ELSE {})
             /\ imagePreview' = imagePreview
             /\ formData' = formData]_vars

\* a 6 MiB JPEG was picked and refused for its size: no preview, no image
C25_Witness ==
  /\ FormMounted
  /\ files = {[name |-> "a", type |-> "image/jpeg", size |-> 6 * 1024 * 1024]}
  /\ imageError = "Image size must be less than 5MB"
  /\ imagePreview = NullPreview
  /\ formData.personalInfo.profileImage = EmptyStr
  /\ reading = << >>


\* C27: a profile-image upload whose conversion completes after other edits
\* changes only the profile image: the personal fields, the education list,
\* the experience list and the repository selection are after the
\* completion what they were just before it, edits made since the start of
\* the conversion included.
C27_ConversionKeepsEdits ==
  [][ImageConverted =>
      /\ \A f \in PersonalFields : formData'.personalInfo[f] = formData.personalInfo[f]
      /\ formData'.education = formData.education
      /\ formData'.experiences = formData.experiences
      /\ formData'.selectedRepoIds = formData.selectedRepoIds
      /\ \E i \in 1..Len(reading) :
           /\ reading[i].state = "reading"
           /\ formData'.personalInfo.profileImage = imageToBase64(reading[i].file)]_vars

\* a conversion has completed over a record that was edited after the
\* conversion started, and the record is that edited record with the image
C27_Witness ==
  /\ FormMounted
  /\ \E i \in 1..Len(reading) :
       /\ reading[i].state = "done"
       /\ reading[i].prev # reading[i].rendered
       /\ formData.personalInfo.profileImage = imageToBase64(reading[i].file)
       /\ formData = [reading[i].prev EXCEPT
                        !.personalInfo.profileImage = imageToBase64(reading[i].file)]


\* slices of the record that differ between two records
ChangedSlices(old, new) == {k \in RecordKeys : old[k] # new[k]}

\* C26: the record of a mounted form changes only by a mutation callback,
\* and each changes only its own slice: a step that changes the record
\* changes exactly one of personalInfo, education, experiences and
\* selectedRepoIds, a personal update changes one personal field only, and
\* the step changes neither the active section nor the submission errors.
C26_OneSlicePerMutation ==
  [][(formData # NoForm /\ formData' # NoForm /\ formData' # formData) =>
       /\ Cardinality(ChangedSlices(formData, formData')) = 1
       /\ ChangedSlices(formData, formData') = {"personalInfo"} =>
            Cardinality({f \in DOMAIN formData.personalInfo :
                           formData'.personalInfo[f] # formData.personalInfo[f]}) = 1
       /\ currentSection' = currentSection
       /\ errors' = errors]_vars

\* the name was typed again after a refused submission: the record has it,
\* and the error set of that submission still stands
C26_Witness ==
  /\ FormMounted
  /\ currentSection = "personal"
  /\ errors = {"fullName"}
  /\ formData.personalInfo.fullName # EmptyStr
  /\ formData.education = DurableSnapshot.education
  /\ formData.experiences = DurableSnapshot.experiences


\* C28: when the form is unmounted by closing the modal or by a submission,
\* the form created next holds the record the unmounted form held: what
\* loadSavedFormData reads from the stores left by the unmount (nothing
\* writes them while no form is mounted) is that record, whatever edits and
\* save outcomes came before.
C28_RemountRestoresRecord ==
  [][((handleCloseModal \/ handleSubmit) /\ formData # NoForm /\ formData' = NoForm) =>
       loadSavedFormData(sessionStore', localStore') = formData]_vars


\* C29: while the education section is shown, for every education entry of
\* the record and each of startDate, endDate and gpa, the inline error map
\* has the key (entry id, field) exactly when the value stored in the record
\* for that field is non-empty and fails the field's validator.
C29_ErrorMapMatchesRecord ==
  (FormMounted /\ currentSection = "education") =>
    \A i \in 1..Len(formData.education) :
      \A field \in {"startDate", "endDate", "gpa"} :
        Recorded(validationErrors, <<formData.education[i].id, field>>)
          <=> InvalidFor(field, formData.education[i][field])

====
